---------------------------- MODULE Spec2Model ----------------------------
(***************************************************************************)
(* Model of the quartz_updater synchronisation service: the manifest diff  *)
(* (storage.ts getPermittedChanges), the update sessions with their expiry *)
(* timers (storage.ts createUpdateSession / getUpdateSession /             *)
(* deleteUpdateSession), the per-path applier (storage.ts applyUpdate) and *)
(* the two request handlers of routes.ts (request-update, update-batch).   *)
(*                                                                         *)
(* Node runs every synchronous stretch of a handler to completion, so one  *)
(* action is one such stretch: from the arrival of a request, a timer or   *)
(* the completion of a filesystem call up to the next await on the         *)
(* filesystem.                                                             *)
(***************************************************************************)
EXTENDS Integers, Sequences, FiniteSets, TLC

(***************************************************************************)
(* Bounds of the model.                                                    *)
(***************************************************************************)
\* longest client manifest a request-update carries
MaxManifestLen == 2
\* longest update list an update-batch carries
MaxUpdates == 2
\* number of session ids generateSessionId hands out in one run
MaxSessionIds == 1

\* routes.ts: BATCH_SIZE = parseInt(process.env.BATCH_SIZE || "10"), read
\* once at startup; the configurations the model runs
BatchSizes == {2}

\* relative paths below CONTENT_DIR: one at the top level and one nested
TopPaths == {"a.md"}
NestedPaths == {"sub/b.md"}
Paths == TopPaths \cup NestedPaths

\* file contents, and the absence of a file
Contents == {"x", "y"}
NoFile == "ENOENT"

\* what fs.writeFile leaves when it throws after it has opened the file for
\* writing: the file exists, the content has not arrived
Truncated == ""

\* storage.ts hashContent: sha256 of the content, as a hex string
hashContent(content) ==
  CASE content = "x" -> "2d71"
    [] content = "y" -> "a1fc"
    [] OTHER -> "e3b0"

\* fingerprints a client manifest may carry
Hashes == {hashContent(c) : c \in Contents}

\* Map.get of a missing key
Undefined == "undefined"

Statuses == {"success", "failure"}


(***************************************************************************)
(* JavaScript Map, as the sequence of its entries in insertion order.      *)
(***************************************************************************)
MapHas(m, k) == \E i \in 1..Len(m) : m[i].path = k

MapGet(m, k) ==
  IF MapHas(m, k)
    THEN (CHOOSE e \in {m[i] : i \in 1..Len(m)} : e.path = k).hash
    ELSE Undefined

\* Map.prototype.set: a key already present keeps its place and takes the
\* new value, a new key goes to the end
MapSet(m, k, v) ==
  IF MapHas(m, k)
    THEN [i \in 1..Len(m) |->
            IF m[i].path = k THEN [path |-> k, hash |-> v] ELSE m[i]]
    ELSE Append(m, [path |-> k, hash |-> v])

\* new Map(manifest.map(file => [file.path, file.hash]))
RECURSIVE NewMapFrom(_, _, _)
NewMapFrom(manifest, i, acc) ==
  IF i > Len(manifest)
    THEN acc
    ELSE NewMapFrom(manifest, i + 1,
                    MapSet(acc, manifest[i].path, manifest[i].hash))

NewMap(manifest) == NewMapFrom(manifest, 1, << >>)

\* JavaScript truthiness of a string or undefined
Truthy(v) == v # Undefined /\ v # ""

(***************************************************************************)
(* storage.ts getPermittedChanges: the diff of the server's manifest cache *)
(* and a client manifest.                                                  *)
(***************************************************************************)
\* (mutant of ClientLoop: the fingerprints are not compared, every path the
\* server knows is an update)
RECURSIVE ClientLoopIgnoresHash(_, _, _, _)
ClientLoopIgnoresHash(serverManifestMap, clientManifestMap, i, changes) ==
  IF i > Len(clientManifestMap)
    THEN changes
    ELSE LET path == clientManifestMap[i].path
             next ==
               IF Truthy(MapGet(serverManifestMap, path))
                 THEN Append(changes, [type |-> "update", path |-> path])
                 ELSE Append(changes, [type |-> "create", path |-> path])
         IN ClientLoopIgnoresHash(serverManifestMap, clientManifestMap, i + 1, next)

\* first loop: for (const [path, clientHash] of clientManifestMap.entries())
RECURSIVE ClientLoop(_, _, _, _)
ClientLoop(serverManifestMap, clientManifestMap, i, changes) ==
  IF i > Len(clientManifestMap)
    THEN changes
    ELSE LET path == clientManifestMap[i].path
             clientHash == clientManifestMap[i].hash
             serverHash == MapGet(serverManifestMap, path)
             next ==
               IF Truthy(serverHash)
                 THEN IF serverHash # clientHash
                        THEN Append(changes, [type |-> "update", path |-> path])
                        ELSE changes
                 ELSE Append(changes, [type |-> "create", path |-> path])
         IN ClientLoop(serverManifestMap, clientManifestMap, i + 1, next)

\* second loop: for (const [path, serverHash] of serverManifestMap.entries())
RECURSIVE ServerLoop(_, _, _, _)
ServerLoop(serverManifestMap, clientManifestMap, i, changes) ==
  IF i > Len(serverManifestMap)
    THEN changes
    ELSE LET path == serverManifestMap[i].path
             next ==
               IF ~MapHas(clientManifestMap, path)
                 THEN Append(changes, [type |-> "delete", path |-> path])
                 ELSE changes
         IN ServerLoop(serverManifestMap, clientManifestMap, i + 1, next)

\* (mutant of getPermittedChanges: the server loop runs before the client
\* loop)
getPermittedChangesDeletesFirst(cache, clientManifest) ==
  LET serverManifestMap == NewMap(cache)
      clientManifestMap == NewMap(clientManifest)
  IN ClientLoop(serverManifestMap, clientManifestMap, 1,
                ServerLoop(serverManifestMap, clientManifestMap, 1, << >>))

getPermittedChanges(cache, clientManifest) ==
  LET serverManifestMap == NewMap(cache)
      clientManifestMap == NewMap(clientManifest)
  IN ServerLoop(serverManifestMap, clientManifestMap, 1,
                ClientLoop(serverManifestMap, clientManifestMap, 1, << >>))

(***************************************************************************)
(* routes.ts request-update: the loop that cuts the diff into batches of   *)
(* BATCH_SIZE changes, one session each.                                   *)
(***************************************************************************)
\* (mutant of Slice: the end index is taken inclusive)
SliceInclusive(s, from, to) ==
  LET hi == IF to + 1 > Len(s) THEN Len(s) ELSE to + 1
  IN [k \in 1..(IF hi > from THEN hi - from ELSE 0) |-> s[from + k]]

\* Array.prototype.slice(from, to) with 0-based, end-exclusive indices
Slice(s, from, to) ==
  LET hi == IF to > Len(s) THEN Len(s) ELSE to
  IN [k \in 1..(IF hi > from THEN hi - from ELSE 0) |-> s[from + k]]


(***************************************************************************)
(* State.                                                                  *)
(***************************************************************************)
VARIABLES
  manifestCache,   \* storage.ts manifestCache: sequence of [path, hash]
  files,           \* the tree below CONTENT_DIR: path -> content or NoFile
  sessionStorage,  \* storage.ts sessionStorage: session id -> permittedChanges
  timers,          \* ids of the sessions whose setTimeout is pending
  nextId,          \* number of session ids generated so far
  handler,         \* the update-batch requests that await the filesystem
  reply,           \* the response being sent, NoReply between requests
  consumed,        \* history: ids whose update-batch found the session and ended
  expired,         \* history: ids whose timeout callback has run
  BATCH_SIZE,      \* routes.ts BATCH_SIZE, fixed at startup
  boot,            \* server.ts start: how far initializeManifestCache has come
  client           \* the client: the manifest it synchronises and what it
                   \* has still to submit (NoClient for a client without plan)

vars == << manifestCache, files, sessionStorage, timers, nextId, handler,
           reply, consumed, expired, BATCH_SIZE, boot, client >>

\* concurrent update-batch requests the model follows
Handlers == {1, 2}

\* a client that keeps no state between its requests
NoClient ==
  [phase |-> "none", manifest |-> << >>, todo |-> << >>, ok |-> TRUE,
   tree |-> << >>, cache |-> << >>]

\* initializeManifestCache has returned: its promise is resolved, and
\* `failed` tells whether it went through its catch block
Booted(failed) ==
  [pc |-> "done", listing |-> {}, failed |-> failed, outcome |-> "resolved"]

NoReply == [op |-> "none"]

Idle == [pc |-> "idle"]

\* request bodies
Entries == [path : Paths, hash : Hashes]

RECURSIVE SeqsUpTo(_, _)
SeqsUpTo(S, n) ==
  IF n = 0
    THEN {<< >>}
    ELSE LET shorter == SeqsUpTo(S, n - 1)
         IN shorter \cup {Append(q, e) : q \in shorter, e \in S}

ClientManifests == SeqsUpTo(Entries, MaxManifestLen)

\* a request body without a manifest
MissingManifest == << [path |-> "", hash |-> "missing"] >>

\* the content a client uploads, and the content of the files at startup
Uploads == {"y"}
InitialContents == {"x"}

\* an update carries a type, a path and content (the tests send "" with a
\* delete); "rename" is a type applyUpdate's switch does not know
Updates ==
  [type : {"create", "update"}, path : Paths, content : Uploads]
    \cup [type : {"delete", "rename"}, path : Paths, content : {""}]

UpdateLists == SeqsUpTo(Updates, MaxUpdates)

(***************************************************************************)
(* storage.ts: sessions.  A store is the triple the three functions share. *)
(***************************************************************************)
Store == [sessionStorage |-> sessionStorage, timers |-> timers, nextId |-> nextId]

MapDelete(f, k) == [x \in DOMAIN f \ {k} |-> f[x]]

MapPut(f, k, v) == [x \in DOMAIN f \cup {k} |-> IF x = k THEN v ELSE f[x]]

\* generateSessionId: a fresh id each time (ids are taken not to collide)
generateSessionId(store) == store.nextId + 1

\* (mutant of createUpdateSession: the session is returned but not stored)
createUpdateSessionForgets(store, permittedChanges) ==
  LET sessionId == generateSessionId(store)
  IN [store |-> [store EXCEPT !.nextId = sessionId],
      session |-> [id |-> sessionId, permittedChanges |-> permittedChanges]]

\* (mutant of createUpdateSession: the session is stored without a timeout)
createUpdateSessionNoTimer(store, permittedChanges) ==
  LET sessionId == generateSessionId(store)
  IN [store |-> [sessionStorage |->
                   MapPut(store.sessionStorage, sessionId, permittedChanges),
                 timers |-> store.timers,
                 nextId |-> sessionId],
      session |-> [id |-> sessionId, permittedChanges |-> permittedChanges]]

\* createUpdateSession: arm the timeout, store the session, return it
createUpdateSession(store, permittedChanges) ==
  LET sessionId == generateSessionId(store)
  IN [store |-> [sessionStorage |->
                   MapPut(store.sessionStorage, sessionId, permittedChanges),
                 timers |-> store.timers \cup {sessionId},
                 nextId |-> sessionId],
      session |-> [id |-> sessionId, permittedChanges |-> permittedChanges]]

\* (mutant of getUpdateSession: a missing id yields an empty session)
getUpdateSessionOrEmpty(store, id) ==
  IF id \in DOMAIN store.sessionStorage
    THEN [found |-> TRUE, id |-> id,
          permittedChanges |-> store.sessionStorage[id]]
    ELSE [found |-> TRUE, id |-> id, permittedChanges |-> << >>]

\* getUpdateSession: sessionStorage.get(id)
getUpdateSession(store, id) ==
  IF id \in DOMAIN store.sessionStorage
    THEN [found |-> TRUE, id |-> id,
          permittedChanges |-> store.sessionStorage[id]]
    ELSE [found |-> FALSE]

\* (mutant of deleteUpdateSession: the timeout is not cleared)
deleteUpdateSessionLeavesTimer(store, id) ==
  IF id \in DOMAIN store.sessionStorage
    THEN [store EXCEPT !.sessionStorage = MapDelete(@, id)]
    ELSE store

\* (mutant of deleteUpdateSession: the session stays stored)
deleteUpdateSessionKeeps(store, id) == store

\* deleteUpdateSession: clearTimeout and delete, only when the id is stored
deleteUpdateSession(store, id) ==
  IF id \in DOMAIN store.sessionStorage
    THEN [store EXCEPT !.sessionStorage = MapDelete(@, id),
                       !.timers = @ \ {id}]
    ELSE store

\* getAllUpdateSessions: the stored sessions (its body is not in the sources)
getAllUpdateSessions(store) == DOMAIN store.sessionStorage

\* (mutant of TimeoutCallback: the callback logs and deletes nothing)
TimeoutCallbackKeeps(store, sessionId) ==
  [store EXCEPT !.timers = @ \ {sessionId}]

\* the callback createUpdateSession hands to setTimeout
TimeoutCallback(store, sessionId) ==
  [store EXCEPT !.sessionStorage = MapDelete(@, sessionId),
                !.timers = @ \ {sessionId}]

(***************************************************************************)
(* routes.ts request-update.                                               *)
(***************************************************************************)
\* for (let i = 0; i < permittedChanges.length; i += BATCH_SIZE)
RECURSIVE SessionLoop(_, _, _)
SessionLoop(permittedChanges, i, acc) ==
  IF ~(i < Len(permittedChanges))
    THEN acc
    ELSE LET batch == Slice(permittedChanges, i, i + BATCH_SIZE)
             created == createUpdateSession(acc.store, batch)
         IN SessionLoop(permittedChanges, i + BATCH_SIZE,
                        [store |-> created.store,
                         updateSessions |->
                           Append(acc.updateSessions, created.session)])

\* history: the state a request found when it arrived
Snapshot ==
  [manifestCache |-> manifestCache, files |-> files,
   sessionStorage |-> sessionStorage, timers |-> timers, nextId |-> nextId,
   consumed |-> consumed, expired |-> expired, boot |-> boot]

\* the response of request-update: its status and body, with the request
\* and the diff it was computed from
SyncReply(status, manifest, changes, updateSessions) ==
  [op |-> "request-update", status |-> status, manifest |-> manifest,
   permittedChanges |-> changes, updateSessions |-> updateSessions,
   before |-> Snapshot]

\* a client that sends a request after the response to its previous one
\* (the service is written for one client)
Sequential == \A h \in Handlers : handler[h] = Idle

\* (mutant of RequestSync: no check for sessions in progress)
RequestSyncUnchecked(manifest) ==
  /\ reply = NoReply
  /\ IF manifest = MissingManifest
       THEN /\ reply' = SyncReply(400, manifest, << >>, << >>)
            /\ UNCHANGED << sessionStorage, timers, nextId >>
       ELSE LET permittedChanges == getPermittedChanges(manifestCache, manifest)
                done == SessionLoop(permittedChanges, 0,
                                    [store |-> Store, updateSessions |-> << >>])
            IN /\ reply' = SyncReply(200, manifest, permittedChanges,
                                     done.updateSessions)
               /\ sessionStorage' = done.store.sessionStorage
               /\ timers' = done.store.timers
               /\ nextId' = done.store.nextId
  /\ UNCHANGED << manifestCache, files, handler, consumed, expired, BATCH_SIZE, boot >>

RequestSync(manifest) ==
  /\ reply = NoReply
  /\ IF getAllUpdateSessions(Store) # {}
       THEN /\ reply' = SyncReply(409, manifest, << >>, << >>)
            /\ UNCHANGED << sessionStorage, timers, nextId >>
       ELSE IF manifest = MissingManifest
         THEN /\ reply' = SyncReply(400, manifest, << >>, << >>)
              /\ UNCHANGED << sessionStorage, timers, nextId >>
         ELSE LET permittedChanges == getPermittedChanges(manifestCache, manifest)
                  done == IF Len(permittedChanges) = 0
                            THEN [store |-> Store, updateSessions |-> << >>]
                            ELSE SessionLoop(permittedChanges, 0,
                                   [store |-> Store, updateSessions |-> << >>])
              IN /\ reply' = SyncReply(200, manifest, permittedChanges,
                                       done.updateSessions)
                 /\ sessionStorage' = done.store.sessionStorage
                 /\ timers' = done.store.timers
                 /\ nextId' = done.store.nextId
  /\ UNCHANGED << manifestCache, files, handler, consumed, expired, BATCH_SIZE, boot >>


(***************************************************************************)
(* storage.ts applyUpdate, cut at its awaits on the filesystem.            *)
(***************************************************************************)
\* the synchronous head of applyUpdate: the switch on update.type up to the
\* first await (fs.mkdir, fs.unlink) or, for an unknown type, the return
applyUpdateEnter(update) ==
  CASE update.type \in {"create", "update"} -> "mkdir"
    [] update.type = "delete" -> "unlink"
    [] OTHER -> "settled"

\* (mutant of ManifestUpsert: the entry is pushed without looking for one)
ManifestUpsertPushes(cache, path, newHash) ==
  Append(cache, [path |-> path, hash |-> newHash])

\* manifestCache.findIndex, then the assignment to .hash or the push
ManifestUpsert(cache, path, newHash) ==
  IF \E i \in 1..Len(cache) : cache[i].path = path
    THEN LET existingFileIndex ==
               CHOOSE i \in 1..Len(cache) :
                 /\ cache[i].path = path
                 /\ \A j \in 1..(i - 1) : cache[j].path # path
         IN [cache EXCEPT ![existingFileIndex].hash = newHash]
    ELSE Append(cache, [path |-> path, hash |-> newHash])

\* (mutant of ManifestRemove: the entry stays in the manifest cache)
ManifestRemoveKeeps(cache, path) == cache

\* manifestCache.filter((f) => f.path !== update.path)
ManifestRemove(cache, path) ==
  LET keep(f) == f.path # path
  IN SelectSeq(cache, keep)

(***************************************************************************)
(* routes.ts update-batch.                                                 *)
(***************************************************************************)
PermittedPaths(permittedChanges) ==
  {permittedChanges[k].path : k \in 1..Len(permittedChanges)}

\* (mutant of Dispatch: every update enters applyUpdate)
DispatchUnchecked(permittedPaths, update) ==
  [stage |-> applyUpdateEnter(update), handed |-> TRUE]

\* the callback of updates.map up to its first await: an update whose path
\* is not permitted is settled at once, any other enters applyUpdate
Dispatch(permittedPaths, update) ==
  IF update.path \notin permittedPaths
    THEN [stage |-> "settled", handed |-> FALSE]
    ELSE [stage |-> applyUpdateEnter(update), handed |-> TRUE]

Failure(update) == [path |-> update.path, status |-> "failure"]
Success(update) == [path |-> update.path, status |-> "success"]
Pending(update) == [path |-> update.path, status |-> "pending"]

\* (mutant of ResolveAt: results are kept in the order they arrive)
ResolveAtNextFree(results, i, result) ==
  LET free == {k \in 1..Len(results) : results[k].status = "pending"}
      first == CHOOSE k \in free : \A j \in free : k <= j
  IN IF free = {} THEN results ELSE [results EXCEPT ![first] = result]

\* Promise.all keeps each result at the index of its promise
ResolveAt(results, i, result) == [results EXCEPT ![i] = result]

BatchReply(status, id, found, r) ==
  [op |-> "update-batch", status |-> status, id |-> id, found |-> found,
   updates |-> r.updates, results |-> r.results, session |-> r.session,
   handed |-> r.handed, fsFailed |-> r.fsFailed, enoent |-> r.enoent,
   before |-> r.before]

\* (mutant of Proceed: the session is deleted only when no update failed)
ProceedKeepsFailed(h, r) ==
  IF \A i \in 1..Len(r.updates) : r.stage[i] = "settled"
    THEN LET store == IF \A i \in 1..Len(r.updates) : r.results[i].status = "success"
                        THEN deleteUpdateSession(Store, r.id)
                        ELSE Store
         IN /\ handler' = [handler EXCEPT ![h] = Idle]
            /\ sessionStorage' = store.sessionStorage
            /\ timers' = store.timers
            /\ reply' = BatchReply(200, r.id, TRUE, r)
            /\ consumed' = consumed \cup {r.id}
    ELSE /\ handler' = [handler EXCEPT ![h] = r]
         /\ UNCHANGED << sessionStorage, timers, reply, consumed >>

\* after a synchronous stretch of request h: when every promise is settled
\* Promise.all resolves and the handler deletes the session and replies,
\* otherwise the request goes on waiting for the filesystem
Proceed(h, r) ==
  IF \A i \in 1..Len(r.updates) : r.stage[i] = "settled"
    THEN LET store == deleteUpdateSession(Store, r.id)
         IN /\ handler' = [handler EXCEPT ![h] = Idle]
            /\ sessionStorage' = store.sessionStorage
            /\ timers' = store.timers
            /\ reply' = BatchReply(200, r.id, TRUE, r)
            /\ consumed' = consumed \cup {r.id}
    ELSE /\ handler' = [handler EXCEPT ![h] = r]
         /\ UNCHANGED << sessionStorage, timers, reply, consumed >>

ApplyBatchStart(h, id, updates) ==
  /\ reply = NoReply
  /\ handler[h] = Idle
  /\ \A g \in Handlers : g < h => handler[g] # Idle
  /\ LET session == getUpdateSession(Store, id)
         n == Len(updates)
     IN IF ~session.found
          THEN /\ reply' = BatchReply(400, id, FALSE,
                             [updates |-> updates,
                              results |-> [i \in 1..n |-> Failure(updates[i])],
                              session |-> << >>, handed |-> {}, fsFailed |-> {},
                              enoent |-> {}, before |-> Snapshot])
               /\ UNCHANGED << sessionStorage, timers, handler, consumed >>
          ELSE LET permittedPaths == PermittedPaths(session.permittedChanges)
                   entered == [i \in 1..n |-> Dispatch(permittedPaths, updates[i])]
                   stage == [i \in 1..n |-> entered[i].stage]
                   r == [pc |-> "applying", id |-> id,
                         session |-> session.permittedChanges,
                         updates |-> updates, stage |-> stage,
                         results |-> [i \in 1..n |->
                                        IF stage[i] = "settled"
                                          THEN Failure(updates[i])
                                          ELSE Pending(updates[i])],
                         handed |-> {i \in 1..n : entered[i].handed},
                         fsFailed |-> {}, enoent |-> {}, before |-> Snapshot]
               IN Proceed(h, r)
  /\ UNCHANGED << manifestCache, files, nextId, expired, BATCH_SIZE, boot >>

\* the promise of update i of request h settles with `result`
Settle(h, i, result, fsOk) ==
  LET r == handler[h]
  IN Proceed(h, [r EXCEPT !.stage[i] = "settled",
                          !.results = ResolveAt(r.results, i, result),
                          !.fsFailed = IF fsOk THEN @ ELSE @ \cup {i}])

Awaiting(h, i, what) ==
  /\ reply = NoReply
  /\ handler[h] # Idle
  /\ i \in 1..Len(handler[h].updates)
  /\ handler[h].stage[i] = what

\* await fs.mkdir(path.dirname(filePath), { recursive: true }) returns or throws
MkdirDone(h, i, ok) ==
  /\ Awaiting(h, i, "mkdir")
  /\ IF ok
       THEN /\ handler' = [handler EXCEPT ![h].stage[i] = "writeFile"]
            /\ UNCHANGED << sessionStorage, timers, reply, consumed >>
       ELSE Settle(h, i, Failure(handler[h].updates[i]), FALSE)
  /\ UNCHANGED << manifestCache, files, nextId, expired, BATCH_SIZE, boot >>

\* (mutant of WriteFileDone: the manifest cache is updated before the write
\* is known to have succeeded)
WriteFileDoneCachesFirst(h, i, ok) ==
  /\ Awaiting(h, i, "writeFile")
  /\ LET update == handler[h].updates[i]
     IN /\ manifestCache' = ManifestUpsert(manifestCache, update.path,
                                           hashContent(update.content))
        /\ IF ok
             THEN /\ files' = [files EXCEPT ![update.path] = update.content]
                  /\ Settle(h, i, Success(update), TRUE)
             ELSE /\ UNCHANGED files
                  /\ Settle(h, i, Failure(update), FALSE)
  /\ UNCHANGED << nextId, expired, BATCH_SIZE, boot >>

\* await fs.writeFile(filePath, update.content) returns or throws; on return
\* the manifest cache takes the hash of the content; a throw comes before
\* the file is opened (the file is as it was) or after (the file is left
\* truncated), and the catch leaves the manifest cache alone
WriteFileDone(h, i, ok) ==
  /\ Awaiting(h, i, "writeFile")
  /\ LET update == handler[h].updates[i]
     IN IF ok
          THEN /\ files' = [files EXCEPT ![update.path] = update.content]
               /\ manifestCache' = ManifestUpsert(manifestCache, update.path,
                                                  hashContent(update.content))
               /\ Settle(h, i, Success(update), TRUE)
          ELSE /\ \E left \in {files[update.path], Truncated} :
                    files' = [files EXCEPT ![update.path] = left]
               /\ UNCHANGED manifestCache
               /\ Settle(h, i, Failure(update), FALSE)
  /\ UNCHANGED << nextId, expired, BATCH_SIZE, boot >>

\* (mutant of UnlinkDone: the entry stays in the manifest cache)
UnlinkDoneKeepsEntry(h, i, ok) ==
  /\ Awaiting(h, i, "unlink")
  /\ LET update == handler[h].updates[i]
     IN IF ok /\ files[update.path] # NoFile
          THEN /\ files' = [files EXCEPT ![update.path] = NoFile]
               /\ UNCHANGED manifestCache
               /\ Settle(h, i, Success(update), TRUE)
          ELSE /\ UNCHANGED << files, manifestCache >>
               /\ Settle(h, i, Failure(update), FALSE)
  /\ UNCHANGED << nextId, expired, BATCH_SIZE, boot >>

\* the promise of update i of request h settles with Failure because
\* fs.unlink found no file (ENOENT)
SettleNoFile(h, i) ==
  LET r == handler[h]
  IN Proceed(h, [r EXCEPT !.stage[i] = "settled",
                          !.results = ResolveAt(r.results, i, Failure(r.updates[i])),
                          !.fsFailed = @ \cup {i},
                          !.enoent = @ \cup {i}])

\* await fs.unlink(filePath) returns or throws; it throws when there is no
\* such file (ok: nothing else fails); on return the entry leaves the
\* manifest cache
UnlinkDone(h, i, ok) ==
  /\ Awaiting(h, i, "unlink")
  /\ LET update == handler[h].updates[i]
     IN IF ok /\ files[update.path] # NoFile
          THEN /\ files' = [files EXCEPT ![update.path] = NoFile]
               /\ manifestCache' = ManifestRemove(manifestCache, update.path)
               /\ Settle(h, i, Success(update), TRUE)
          ELSE /\ UNCHANGED << files, manifestCache >>
               /\ IF ok
                    THEN SettleNoFile(h, i)
                    ELSE Settle(h, i, Failure(update), FALSE)
  /\ UNCHANGED << nextId, expired, BATCH_SIZE, boot >>

\* (mutant of Expire: the timeout also cancels the writes of the requests
\* that are applying the session)
ExpireCancels(id) ==
  /\ reply = NoReply
  /\ id \in timers
  /\ LET store == TimeoutCallback(Store, id)
     IN /\ sessionStorage' = store.sessionStorage
        /\ timers' = store.timers
  /\ expired' = expired \cup {id}
  /\ handler' = [h \in Handlers |->
                   IF handler[h] # Idle /\ handler[h].id = id
                     THEN [handler[h] EXCEPT
                             !.stage = [i \in DOMAIN @ |-> "settled"],
                             !.results = [i \in DOMAIN @ |->
                                            IF @[i].status = "pending"
                                              THEN Failure(handler[h].updates[i])
                                              ELSE @[i]]]
                     ELSE handler[h]]
  /\ UNCHANGED << manifestCache, files, nextId, reply, consumed,
                  BATCH_SIZE, boot >>

\* the timeout of session id elapses
Expire(id) ==
  /\ reply = NoReply
  /\ id \in timers
  /\ LET store == TimeoutCallback(Store, id)
     IN /\ sessionStorage' = store.sessionStorage
        /\ timers' = store.timers
  /\ expired' = expired \cup {id}
  /\ UNCHANGED << manifestCache, files, nextId, handler, reply, consumed,
                  BATCH_SIZE, boot >>

\* reply.send: the response leaves the server
SendReply ==
  /\ reply # NoReply
  /\ reply' = NoReply
  /\ UNCHANGED << manifestCache, files, sessionStorage, timers, nextId,
                  handler, consumed, expired, BATCH_SIZE, boot >>

(***************************************************************************)
(* storage.ts initializeManifestCache, as the tests await it before the    *)
(* first request: readdir lists the top level of CONTENT_DIR, every entry  *)
(* is read and hashed, and a failed read leaves the cache empty.           *)
(***************************************************************************)
Orderings(S) ==
  {q \in [1..Cardinality(S) -> S] : \A i, j \in 1..Cardinality(S) : q[i] = q[j] => i = j}

initializeManifestCache(tree) ==
  IF \E p \in NestedPaths : tree[p] # NoFile
    THEN {<< >>}
    ELSE {[i \in 1..Len(q) |-> [path |-> q[i], hash |-> hashContent(tree[q[i]])]] :
            q \in Orderings({p \in TopPaths : tree[p] # NoFile})}

Init ==
  /\ files \in [Paths -> InitialContents \cup {NoFile}]
  /\ manifestCache \in initializeManifestCache(files)
  /\ sessionStorage = << >>
  /\ timers = {}
  /\ nextId = 0
  /\ handler = [h \in Handlers |-> Idle]
  /\ reply = NoReply
  /\ consumed = {}
  /\ expired = {}
  /\ BATCH_SIZE \in BatchSizes
  /\ boot = Booted(\E p \in NestedPaths : files[p] # NoFile)
  /\ client = NoClient

\* a request arrives: any body the bounds allow; an update-batch names a
\* generated session id or 0, an id that is never generated
Arrival == reply = NoReply /\ Sequential /\ boot.pc # "exited"

\* the run ends when generateSessionId has handed out MaxSessionIds ids
SyncArrives ==
  /\ Arrival
  /\ \E manifest \in ClientManifests \cup {MissingManifest} :
       /\ RequestSync(manifest)
       /\ nextId' <= MaxSessionIds
  /\ UNCHANGED client

BatchArrives ==
  /\ Arrival
  /\ \E h \in Handlers, id \in 0..nextId, updates \in UpdateLists :
       ApplyBatchStart(h, id, updates)
  /\ UNCHANGED client

\* the promises of request h
Promises(h) == IF handler[h] = Idle THEN {} ELSE 1..Len(handler[h].updates)

FsCompletes ==
  /\ \E h \in Handlers :
       \E i \in Promises(h), ok \in BOOLEAN :
         \/ MkdirDone(h, i, ok)
         \/ WriteFileDone(h, i, ok)
         \/ UnlinkDone(h, i, ok)
  /\ UNCHANGED client

TimerFires ==
  /\ \E id \in 1..nextId : Expire(id)
  /\ UNCHANGED client

\* the client takes the response and keeps nothing of it
ReplyLeaves == SendReply /\ UNCHANGED client

Next ==
  \/ SyncArrives
  \/ BatchArrives
  \/ FsCompletes
  \/ TimerFires
  \/ ReplyLeaves

Spec == Init /\ [][Next]_vars

\* Node runs the callback of every timeout that has elapsed, however many
\* requests arrive, and sends every response a handler has produced
TimersFair ==
  \A id \in 1..MaxSessionIds : SF_vars(Expire(id) /\ UNCHANGED client)

SpecLive == Spec /\ TimersFair /\ WF_vars(ReplyLeaves)

(***************************************************************************)
(* The diff on its own: the manifest cache is any manifest with one entry  *)
(* per path (what earlier synchronisations leave behind), the tree holds   *)
(* the files it lists, and only request-update runs.                       *)
(***************************************************************************)
UniquePaths(manifest) ==
  \A i, j \in 1..Len(manifest) : manifest[i].path = manifest[j].path => i = j

ServerManifests ==
  {m \in SeqsUpTo(Entries, Cardinality(Paths)) : UniquePaths(m)}

\* the content with a given digest
ContentOf(hash) == CHOOSE c \in Contents : hashContent(c) = hash

InitDiff ==
  /\ manifestCache \in ServerManifests
  /\ files = [p \in Paths |->
                IF MapHas(manifestCache, p)
                  THEN ContentOf(MapGet(manifestCache, p))
                  ELSE NoFile]
  /\ sessionStorage = << >>
  /\ timers = {}
  /\ nextId = 0
  /\ handler = [h \in Handlers |-> Idle]
  /\ reply = NoReply
  /\ consumed = {}
  /\ expired = {}
  /\ BATCH_SIZE \in BatchSizes
  /\ boot = Booted(FALSE)
  /\ client = NoClient

NextDiff ==
  \/ SyncArrives
  \/ ReplyLeaves

SpecDiff == InitDiff /\ [][NextDiff]_vars

\* every request and every timeout, from a manifest cache that lists the
\* tree as it is
SpecAgree == InitDiff /\ [][Next]_vars


(***************************************************************************)
(* Overlapping requests: requests arrive while update-batch requests await *)
(* the filesystem.  Each update-batch carries one update, a write or a     *)
(* delete.                                                                 *)
(***************************************************************************)
OverlapUpdates ==
  [type : {"update"}, path : Paths, content : Contents]
    \cup [type : {"delete"}, path : Paths, content : {""}]

BatchOverlaps ==
  /\ reply = NoReply
  /\ boot.pc # "exited"
  /\ \E h \in Handlers, id \in 1..nextId, update \in OverlapUpdates :
       ApplyBatchStart(h, id, << update >>)
  /\ UNCHANGED client

\* a request-update arrives, whatever else is in progress
SyncOverlaps ==
  /\ reply = NoReply
  /\ boot.pc # "exited"
  /\ \E manifest \in ClientManifests \cup {MissingManifest} :
       /\ RequestSync(manifest)
       /\ nextId' <= MaxSessionIds
  /\ UNCHANGED client

NextOverlap ==
  \/ SyncOverlaps
  \/ BatchOverlaps
  \/ FsCompletes
  \/ TimerFires
  \/ ReplyLeaves

SpecOverlap == Init /\ [][NextOverlap]_vars

(***************************************************************************)
(* server.ts start: the server listens, then makes CONTENT_DIR, then calls *)
(* initializeManifestCache without awaiting it.  Requests are served from  *)
(* the moment the server listens.                                          *)
(***************************************************************************)
InitStart ==
  /\ files \in [Paths -> InitialContents \cup {NoFile}]
  /\ manifestCache = << >>
  /\ sessionStorage = << >>
  /\ timers = {}
  /\ nextId = 0
  /\ handler = [h \in Handlers |-> Idle]
  /\ reply = NoReply
  /\ consumed = {}
  /\ expired = {}
  /\ BATCH_SIZE \in BatchSizes
  /\ boot = [pc |-> "mkdir", listing |-> {}, failed |-> FALSE,
             outcome |-> "pending"]
  /\ client = NoClient

\* await fs.mkdir(CONTENT_DIR, { recursive: true }) returns, and
\* initializeManifestCache is called and runs up to its await fs.readdir;
\* or mkdir throws and the catch of start ends the process
StartMkdirDone(ok) ==
  /\ reply = NoReply
  /\ boot.pc = "mkdir"
  /\ IF ok
       THEN /\ boot' = [boot EXCEPT !.pc = "readdir"]
            /\ UNCHANGED << sessionStorage, timers, handler >>
       ELSE /\ boot' = [boot EXCEPT !.pc = "exited"]
            /\ sessionStorage' = << >>
            /\ timers' = {}
            /\ handler' = [h \in Handlers |-> Idle]
  /\ UNCHANGED << manifestCache, files, nextId, reply, consumed, expired,
                  BATCH_SIZE >>

\* await fs.readdir(CONTENT_DIR) returns the names at the top of the tree (a
\* nested file stands for its directory) and a readFile is started for each;
\* or readdir throws, the catch logs, and the function returns
InitReaddirDone(ok) ==
  /\ reply = NoReply
  /\ boot.pc = "readdir"
  /\ boot' = IF ok
               THEN [boot EXCEPT !.pc = "readFile",
                                 !.listing = {p \in Paths : files[p] # NoFile}]
               ELSE [boot EXCEPT !.pc = "done", !.failed = TRUE,
                                 !.outcome = "resolved"]
  /\ UNCHANGED << manifestCache, files, sessionStorage, timers, nextId,
                  handler, reply, consumed, expired, BATCH_SIZE >>

\* the reads return and Promise.all resolves, the manifest cache is assigned
\* and the function returns; or a read throws (a directory, a file removed
\* since the listing, any other error), the catch logs, and the function
\* returns with the manifest cache as it is
InitReadFilesDone(ok) ==
  /\ reply = NoReply
  /\ boot.pc = "readFile"
  /\ LET seen == [p \in Paths |-> IF p \in boot.listing THEN files[p] ELSE NoFile]
         throws == \/ ~ok
                   \/ boot.listing \cap NestedPaths # {}
                   \/ \E p \in boot.listing : files[p] = NoFile
     IN IF throws
          THEN /\ UNCHANGED manifestCache
               /\ boot' = [boot EXCEPT !.pc = "done", !.failed = TRUE,
                                       !.outcome = "resolved"]
          ELSE /\ manifestCache' \in initializeManifestCache(seen)
               /\ boot' = [boot EXCEPT !.pc = "done", !.outcome = "resolved"]
  /\ UNCHANGED << files, sessionStorage, timers, nextId, handler, reply,
                  consumed, expired, BATCH_SIZE >>

StartProceeds ==
  /\ \E ok \in BOOLEAN :
       \/ StartMkdirDone(ok)
       \/ InitReaddirDone(ok)
       \/ InitReadFilesDone(ok)
  /\ UNCHANGED client

NextStart ==
  \/ StartProceeds
  \/ SyncArrives
  \/ BatchArrives
  \/ FsCompletes
  \/ TimerFires
  \/ ReplyLeaves

SpecStart == InitStart /\ [][NextStart]_vars

(***************************************************************************)
(* The round trip of the integration test: the tree holds up to three      *)
(* files, the client asks once for the sessions of its manifest, submits   *)
(* every session once, in the order returned, with one update per          *)
(* permitted change, and then asks again with the same manifest.           *)
(***************************************************************************)
\* session ids one round trip may use
MaxRoundTripIds == 3

\* the values of BATCH_SIZE the round trip runs under (the test sets 3)
RoundTripBatchSizes == {1, 2, 3}

\* the server's files: the paths a client names and one it never names
RoundTripPaths == Paths \cup {"c.md"}

\* the manifest caches of such trees, in any order of their entries
RoundTripManifests ==
  UNION {{[i \in 1..Len(q) |-> [path |-> q[i], hash |-> hashContent(c)]] :
           q \in Orderings(S), c \in InitialContents} :
         S \in SUBSET RoundTripPaths}

InitRoundTrip ==
  /\ manifestCache \in RoundTripManifests
  /\ files = [p \in RoundTripPaths |->
                IF MapHas(manifestCache, p)
                  THEN ContentOf(MapGet(manifestCache, p))
                  ELSE NoFile]
  /\ sessionStorage = << >>
  /\ timers = {}
  /\ nextId = 0
  /\ handler = [h \in Handlers |-> Idle]
  /\ reply = NoReply
  /\ consumed = {}
  /\ expired = {}
  /\ BATCH_SIZE \in RoundTripBatchSizes
  /\ boot = Booted(FALSE)
  /\ client = [NoClient EXCEPT !.phase = "start"]

\* the updates the client sends for a session: for a create or an update
\* the content whose hash its manifest gives for the path
UpdatesFor(permittedChanges, manifest) ==
  [k \in 1..Len(permittedChanges) |->
     [type |-> permittedChanges[k].type,
      path |-> permittedChanges[k].path,
      content |-> IF permittedChanges[k].type = "delete"
                    THEN ""
                    ELSE ContentOf(MapGet(NewMap(manifest),
                                          permittedChanges[k].path))]]

\* the client posts its manifest to request-update and keeps the sessions
ClientSyncs ==
  /\ Arrival
  /\ client.phase = "start"
  /\ \E manifest \in ClientManifests :
       /\ RequestSync(manifest)
       /\ nextId' <= MaxRoundTripIds
       /\ client' = [phase |-> "synced", manifest |-> manifest,
                     todo |-> reply'.updateSessions,
                     ok |-> reply'.status = 200,
                     tree |-> files, cache |-> manifestCache]

\* the client posts the next session to update-batch
ClientSubmits ==
  /\ Arrival
  /\ client.phase = "synced"
  /\ client.todo # << >>
  /\ LET session == Head(client.todo)
     IN \E h \in Handlers :
          ApplyBatchStart(h, session.id,
                          UpdatesFor(session.permittedChanges, client.manifest))
  /\ client' = [client EXCEPT !.todo = Tail(@)]

\* the client takes a response and notes whether every update succeeded
ClientReceives ==
  /\ SendReply
  /\ client' = [client EXCEPT !.ok =
                  /\ @
                  /\ reply.op = "update-batch" =>
                       \A i \in 1..Len(reply.results) :
                         reply.results[i].status = "success"]

\* with every session submitted and answered, the client posts its manifest
\* again
ClientResyncs ==
  /\ Arrival
  /\ client.phase = "synced"
  /\ client.todo = << >>
  /\ RequestSync(client.manifest)
  /\ nextId' <= MaxRoundTripIds
  /\ client' = [client EXCEPT !.phase = "resynced"]

NextRoundTrip ==
  \/ ClientSyncs
  \/ ClientSubmits
  \/ FsCompletes
  \/ TimerFires
  \/ ClientReceives
  \/ ClientResyncs

SpecRoundTrip == InitRoundTrip /\ [][NextRoundTrip]_vars


(***************************************************************************)
(* routes.ts BATCH_SIZE as the environment sets it, and the session loop   *)
(* of request-update one iteration at a time.  The loop is synchronous:    *)
(* nothing else runs until it has ended.                                   *)
(***************************************************************************)
\* session ids the loop may use up
MaxLoopIds == 4

\* JavaScript numbers: an integer or NaN
Num(v) == [nan |-> FALSE, val |-> v]

NaN == [nan |-> TRUE, val |-> 0]

\* process.env.BATCH_SIZE: not set, or a string
EnvValues == {Undefined, "", "10", "2", "1", "0", "-1", "abc"}

\* env || fallback: undefined and the empty string are falsy
OrDefault(env, fallback) == IF env \in {Undefined, ""} THEN fallback ELSE env

\* parseInt(string): the integer the string starts with, or NaN
parseInt(string) ==
  CASE string = "10" -> Num(10)
    [] string = "2" -> Num(2)
    [] string = "1" -> Num(1)
    [] string = "0" -> Num(0)
    [] string = "-1" -> Num(0 - 1)
    [] OTHER -> NaN

\* a + b: NaN if either is
JsAdd(a, b) == IF a.nan \/ b.nan THEN NaN ELSE Num(a.val + b.val)

\* a < b: false if either is NaN
JsLess(a, b) == ~a.nan /\ ~b.nan /\ a.val < b.val

\* ToIntegerOrInfinity: NaN becomes 0
ToIntegerOrInfinity(n) == IF n.nan THEN 0 ELSE n.val

\* Array.prototype.slice's reading of an index: a negative one counts from
\* the end, and the result is clamped to 0..len
RelativeIndex(n, len) ==
  LET relative == ToIntegerOrInfinity(n)
  IN IF relative < 0
       THEN (IF len + relative > 0 THEN len + relative ELSE 0)
       ELSE (IF relative < len THEN relative ELSE len)

\* Array.prototype.slice(start, end) on JavaScript numbers
JsSlice(s, start, end) ==
  Slice(s, RelativeIndex(start, Len(s)), RelativeIndex(end, Len(s)))

InitLoop ==
  /\ manifestCache \in ServerManifests
  /\ files = [p \in Paths |->
                IF MapHas(manifestCache, p)
                  THEN ContentOf(MapGet(manifestCache, p))
                  ELSE NoFile]
  /\ sessionStorage = << >>
  /\ timers = {}
  /\ nextId = 0
  /\ handler = [h \in Handlers |-> Idle]
  /\ reply = NoReply
  /\ consumed = {}
  /\ expired = {}
  /\ BATCH_SIZE \in {parseInt(OrDefault(env, "10")) : env \in EnvValues}
  /\ boot = Booted(FALSE)
  /\ client = NoClient

\* the handler inside its loop: for (let i = 0; ...) with updateSessions = []
SplitState(manifest, permittedChanges, i, updateSessions) ==
  [op |-> "splitting", manifest |-> manifest,
   permittedChanges |-> permittedChanges, i |-> i,
   updateSessions |-> updateSessions, before |-> Snapshot]

\* request-update up to the loop: the 409, the 400, the empty diff
SplitStarts ==
  /\ Arrival
  /\ \E manifest \in ClientManifests \cup {MissingManifest} :
       IF getAllUpdateSessions(Store) # {}
         THEN reply' = SyncReply(409, manifest, << >>, << >>)
         ELSE IF manifest = MissingManifest
           THEN reply' = SyncReply(400, manifest, << >>, << >>)
           ELSE LET permittedChanges ==
                      getPermittedChanges(manifestCache, manifest)
                IN reply' = IF Len(permittedChanges) = 0
                              THEN SyncReply(200, manifest, permittedChanges, << >>)
                              ELSE SplitState(manifest, permittedChanges,
                                              Num(0), << >>)
  /\ UNCHANGED << manifestCache, files, sessionStorage, timers, nextId,
                  handler, consumed, expired, BATCH_SIZE, boot, client >>

\* the test i < permittedChanges.length, and then either one iteration
\* (slice, createUpdateSession, push, i += BATCH_SIZE) or the reply
SplitStep ==
  /\ reply.op = "splitting"
  /\ IF JsLess(reply.i, Num(Len(reply.permittedChanges)))
       THEN /\ nextId < MaxLoopIds
            /\ LET batch == JsSlice(reply.permittedChanges, reply.i,
                                    JsAdd(reply.i, BATCH_SIZE))
                   created == createUpdateSession(Store, batch)
               IN /\ sessionStorage' = created.store.sessionStorage
                  /\ timers' = created.store.timers
                  /\ nextId' = created.store.nextId
                  /\ reply' = [reply EXCEPT
                                 !.i = JsAdd(reply.i, BATCH_SIZE),
                                 !.updateSessions = Append(@, created.session)]
       ELSE /\ reply' = [op |-> "request-update", status |-> 200,
                         manifest |-> reply.manifest,
                         permittedChanges |-> reply.permittedChanges,
                         updateSessions |-> reply.updateSessions,
                         before |-> reply.before]
            /\ UNCHANGED << sessionStorage, timers, nextId >>
  /\ UNCHANGED << manifestCache, files, handler, consumed, expired,
                  BATCH_SIZE, boot, client >>

\* the response of request-update leaves
SplitReplyLeaves ==
  /\ reply.op = "request-update"
  /\ ReplyLeaves

NextLoop ==
  \/ SplitStarts
  \/ SplitStep
  \/ TimerFires
  \/ SplitReplyLeaves

SpecLoop == InitLoop /\ [][NextLoop]_vars

(***************************************************************************)
(* Properties.  A response is read in the state in which it is sent: every *)
(* other action waits for SendReply, so the state beside a reply is the    *)
(* state its handler left.                                                 *)
(***************************************************************************)
IsSyncReply == reply.op = "request-update"
IsBatchReply == reply.op = "update-batch"

\* every submitted update is answered Failure, in the submitted order
AllFailure(r) ==
  /\ Len(r.results) = Len(r.updates)
  /\ \A i \in 1..Len(r.updates) : r.results[i] = Failure(r.updates[i])

\* the tree and the manifest cache are as the request found them
TreeAsBefore(r) ==
  /\ files = r.before.files
  /\ manifestCache = r.before.manifestCache

\* the manifest cache's fingerprint of a path, Undefined without an entry
EntryOf(cache, path) ==
  IF \E i \in 1..Len(cache) : cache[i].path = path
    THEN {cache[i].hash : i \in {k \in 1..Len(cache) : cache[k].path = path}}
    ELSE {Undefined}

\* C1: once an update-batch that found session s has ended, s is never
\* stored again, and an update-batch that arrives afterwards with s finds no
\* session: every update is answered Failure and nothing is applied.
C1_SingleUse ==
  /\ \A id \in consumed : id \notin DOMAIN sessionStorage
  /\ \A h \in Handlers :
       handler[h] # Idle => handler[h].id \notin handler[h].before.consumed
  /\ (IsBatchReply /\ reply.id \in reply.before.consumed) =>
       /\ ~reply.found
       /\ AllFailure(reply)
       /\ reply.handed = {}
       /\ TreeAsBefore(reply)

\* C1 witness: a second update-batch for a consumed session, naming a path
\* the session had permitted, has been answered
C1_Witness ==
  /\ IsBatchReply
  /\ reply.id \in reply.before.consumed
  /\ reply.id \notin reply.before.expired
  /\ Len(reply.updates) >= 1
  /\ reply.updates[1].type = "create"

\* C2: a request-update that arrives while a session is stored is answered
\* 409, computes no diff, creates no session and changes nothing.
C2_AdmissionControl ==
  (IsSyncReply /\ DOMAIN reply.before.sessionStorage # {}) =>
    /\ reply.status = 409
    /\ reply.permittedChanges = << >>
    /\ reply.updateSessions = << >>
    /\ TreeAsBefore(reply)
    /\ sessionStorage = reply.before.sessionStorage
    /\ timers = reply.before.timers
    /\ nextId = reply.before.nextId

\* C2 witness: a request-update whose manifest differs from the server's was
\* rejected because of a stored session
C2_Witness ==
  /\ IsSyncReply
  /\ reply.status = 409
  /\ reply.manifest # MissingManifest
  /\ getPermittedChanges(manifestCache, reply.manifest) # << >>

\* C3: an update whose path is not among the session's permitted paths is
\* answered Failure and never enters applyUpdate, and the file and the
\* manifest entry of that path are as the request found them.
C3_PathAuthorization ==
  /\ \A h \in Handlers :
       handler[h] # Idle =>
         \A i \in 1..Len(handler[h].updates) :
           handler[h].updates[i].path \notin PermittedPaths(handler[h].session) =>
             /\ handler[h].stage[i] = "settled"
             /\ handler[h].results[i] = Failure(handler[h].updates[i])
             /\ i \notin handler[h].handed
  /\ (IsBatchReply /\ reply.found) =>
       \A i \in 1..Len(reply.updates) :
         reply.updates[i].path \notin PermittedPaths(reply.session) =>
           /\ reply.results[i] = Failure(reply.updates[i])
           /\ i \notin reply.handed
           /\ files[reply.updates[i].path] = reply.before.files[reply.updates[i].path]
           /\ EntryOf(manifestCache, reply.updates[i].path)
                = EntryOf(reply.before.manifestCache, reply.updates[i].path)

\* C3 witness: a batch for a live session carried an update for an existing
\* file outside the permitted paths next to a permitted one that succeeded
C3_Witness ==
  /\ IsBatchReply
  /\ reply.found
  /\ \E i, j \in 1..Len(reply.updates) :
       /\ reply.updates[i].path \notin PermittedPaths(reply.session)
       /\ reply.updates[i].type = "delete"
       /\ files[reply.updates[i].path] # NoFile
       /\ reply.results[j].status = "success"

\* C4: an update is applied only under the kind the session permits for its
\* path: a delete only on a path permitted as delete, a write only on a path
\* permitted as create or update.
C4_KindAuthorization ==
  (IsBatchReply /\ reply.found) =>
    \A i \in 1..Len(reply.updates) :
      reply.results[i].status = "success" =>
        \E k \in 1..Len(reply.session) :
          /\ reply.session[k].path = reply.updates[i].path
          /\ (reply.session[k].type = "delete") = (reply.updates[i].type = "delete")

\* C5: the result list of an update-batch has one entry per submitted update
\* and its i-th entry carries the i-th update's path, whether or not the
\* session was found and in whatever order the updates finish.
C5_ResultOrder ==
  /\ \A h \in Handlers :
       handler[h] # Idle =>
         /\ Len(handler[h].results) = Len(handler[h].updates)
         /\ \A i \in 1..Len(handler[h].updates) :
              handler[h].results[i].path = handler[h].updates[i].path
  /\ IsBatchReply =>
       /\ Len(reply.results) = Len(reply.updates)
       /\ \A i \in 1..Len(reply.updates) :
            /\ reply.results[i].path = reply.updates[i].path
            /\ reply.results[i].status \in Statuses

\* C5 witness: of two updates on different paths the second has finished
\* while the first still waits for the filesystem
C5_Witness ==
  \E h \in Handlers :
    /\ handler[h] # Idle
    /\ Len(handler[h].updates) = 2
    /\ handler[h].updates[1].path # handler[h].updates[2].path
    /\ handler[h].stage[1] # "settled"
    /\ handler[h].stage[2] = "settled"
    /\ handler[h].results[2].status = "success"

\* C6: an update-batch whose id is not stored is answered 400 with every
\* update Failure, and the tree, the manifest cache and the sessions are as
\* it found them.
C6_UnknownSession ==
  (IsBatchReply /\ reply.id \notin DOMAIN reply.before.sessionStorage) =>
    /\ ~reply.found
    /\ reply.status = 400
    /\ AllFailure(reply)
    /\ TreeAsBefore(reply)
    /\ sessionStorage = reply.before.sessionStorage
    /\ timers = reply.before.timers

\* C6 witness: a batch of two updates naming an id that was never generated
\* has been answered
C6_Witness ==
  /\ IsBatchReply
  /\ reply.id = 0
  /\ Len(reply.updates) = 2
  /\ reply.status = 400

\* C7: a session whose timeout has elapsed is stored no longer, its timer is
\* spent, and an update-batch that arrives afterwards with its id finds no
\* session: every update Failure, nothing applied.
C7_Expiry ==
  /\ \A id \in expired :
       /\ id \notin DOMAIN sessionStorage
       /\ id \notin timers
       /\ ~getUpdateSession(Store, id).found
  /\ (IsBatchReply /\ reply.id \in reply.before.expired) =>
       /\ ~reply.found
       /\ AllFailure(reply)
       /\ reply.handed = {}
       /\ TreeAsBefore(reply)

\* C7 witness: an update-batch for a session that expired unconsumed, naming
\* one of its permitted paths, has been answered
C7_Witness ==
  /\ IsBatchReply
  /\ reply.id \in reply.before.expired
  /\ reply.id \notin reply.before.consumed
  /\ Len(reply.updates) >= 1
  /\ reply.updates[1].type = "delete"

\* C8: when an update-batch that found its session replies, the session is
\* stored no longer, whatever the results.
C8_SessionConsumed ==
  (IsBatchReply /\ reply.found) =>
    /\ reply.id \notin DOMAIN sessionStorage
    /\ reply.id \notin timers
    /\ reply.id \in consumed

\* C8 witness: a batch whose only permitted update failed has replied, and
\* the session had not expired
C8_Witness ==
  /\ IsBatchReply
  /\ reply.found
  /\ reply.id \notin expired
  /\ reply.handed # {}
  /\ \A i \in 1..Len(reply.updates) : reply.results[i].status = "failure"

\* the updates of reply r name permitted paths, each once, with a kind that
\* applyUpdate knows
CleanBatch(r) ==
  /\ \A i \in 1..Len(r.updates) :
       /\ r.updates[i].path \in PermittedPaths(r.session)
       /\ r.updates[i].type \in {"create", "update", "delete"}
  /\ \A i, j \in 1..Len(r.updates) :
       r.updates[i].path = r.updates[j].path => i = j

\* update u has taken effect on the tree and the manifest cache
Applied(u) ==
  IF u.type = "delete"
    THEN /\ files[u.path] = NoFile
         /\ EntryOf(manifestCache, u.path) = {Undefined}
    ELSE /\ files[u.path] = u.content
         /\ EntryOf(manifestCache, u.path) = {hashContent(u.content)}

\* C9: in a batch of permitted updates on distinct paths, exactly the updates
\* whose filesystem call failed are answered Failure; every other update is
\* in the tree and the manifest cache, and the manifest entry of a failed
\* path is as the request found it.
C9_PerPathIsolation ==
  (IsBatchReply /\ reply.found /\ CleanBatch(reply)) =>
    \A i \in 1..Len(reply.updates) :
      /\ reply.results[i].path = reply.updates[i].path
      /\ (reply.results[i].status = "failure") = (i \in reply.fsFailed)
      /\ i \notin reply.fsFailed =>
           /\ reply.results[i].status = "success"
           /\ Applied(reply.updates[i])
      /\ i \in reply.fsFailed =>
           EntryOf(manifestCache, reply.updates[i].path)
             = EntryOf(reply.before.manifestCache, reply.updates[i].path)

\* C9 witness: of two permitted writes on distinct paths the first failed
\* and the second succeeded
C9_Witness ==
  /\ IsBatchReply
  /\ reply.found
  /\ CleanBatch(reply)
  /\ Len(reply.updates) = 2
  /\ reply.fsFailed = {1}
  /\ reply.updates[1].type # "delete"
  /\ reply.results[2].status = "success"

\* the changes of `changes` that name path p
ChangesOf(changes, p) == {k \in 1..Len(changes) : changes[k].path = p}

\* what the diff of server manifest S and client manifest C must hold for p
Classified(S, C, changes, p) ==
  LET inS == \E i \in 1..Len(S) : S[i].path = p
      inC == \E i \in 1..Len(C) : C[i].path = p
      same == \E i \in 1..Len(S), j \in 1..Len(C) :
                S[i].path = p /\ C[j].path = p /\ S[i].hash = C[j].hash
      types == {changes[k].type : k \in ChangesOf(changes, p)}
  IN /\ Cardinality(ChangesOf(changes, p)) <= 1
     /\ ("create" \in types) = (inC /\ ~inS)
     /\ ("update" \in types) = (inC /\ inS /\ ~same)
     /\ ("delete" \in types) = (inS /\ ~inC)
     /\ types \subseteq {"create", "update", "delete"}

\* C10: for a server manifest and a client manifest with one entry per path,
\* the diff holds exactly one change per differing path: create for a path
\* only the client has, update for a path both have with different
\* fingerprints, delete for a path only the server has, nothing otherwise.
C10_DiffClassification ==
  (IsSyncReply /\ reply.status = 200 /\ UniquePaths(reply.manifest)) =>
    /\ UniquePaths(reply.before.manifestCache)
    /\ \A p \in Paths :
         Classified(reply.before.manifestCache, reply.manifest,
                    reply.permittedChanges, p)
    /\ \A k \in 1..Len(reply.permittedChanges) :
         reply.permittedChanges[k].path \in Paths
    /\ (reply.manifest = reply.before.manifestCache) => reply.permittedChanges = << >>

\* C10 witness: a file relocated with its fingerprint unchanged is answered
\* with a delete of the old path and a create of the new one
C10_Witness ==
  /\ IsSyncReply
  /\ reply.status = 200
  /\ Len(reply.manifest) = 1
  /\ Len(reply.before.manifestCache) = 1
  /\ reply.manifest[1].path # reply.before.manifestCache[1].path
  /\ reply.manifest[1].hash = reply.before.manifestCache[1].hash
  /\ Len(reply.permittedChanges) = 2

\* the change lists of a sequence of sessions, one after the other
RECURSIVE ConcatChanges(_)
ConcatChanges(sessions) ==
  IF sessions = << >>
    THEN << >>
    ELSE Head(sessions).permittedChanges \o ConcatChanges(Tail(sessions))

Ceil(n, b) == (n + b - 1) \div b

\* the sessions stored since the request of reply r arrived
SessionsAdded(r) == DOMAIN sessionStorage \ DOMAIN r.before.sessionStorage

\* C11: an accepted request-update with a diff of N changes and
\* BATCH_SIZE = B >= 1 returns and stores exactly ceil(N/B) sessions of at
\* most B changes each, every change of the diff is in exactly one session,
\* and the sessions' change lists, in the order returned, concatenate to the
\* diff.
C11_BatchSplitting ==
  (IsSyncReply /\ reply.status = 200 /\ BATCH_SIZE >= 1) =>
    LET N == Len(reply.permittedChanges)
        sessions == reply.updateSessions
    IN /\ Len(sessions) = Ceil(N, BATCH_SIZE)
       /\ Cardinality(SessionsAdded(reply)) = Ceil(N, BATCH_SIZE)
       /\ \A k \in 1..Len(sessions) :
            /\ Len(sessions[k].permittedChanges) <= BATCH_SIZE
            /\ Len(sessions[k].permittedChanges) >= 1
       /\ \A j \in 1..N :
            Cardinality({k \in 1..Len(sessions) :
                           \E m \in 1..Len(sessions[k].permittedChanges) :
                             sessions[k].permittedChanges[m]
                               = reply.permittedChanges[j]}) = 1
       /\ ConcatChanges(sessions) = reply.permittedChanges

\* C11 witness: a diff of three changes was cut into a session of two and a
\* session of one
C11_Witness ==
  /\ IsSyncReply
  /\ reply.status = 200
  /\ BATCH_SIZE = 2
  /\ Len(reply.permittedChanges) = 3
  /\ Len(reply.updateSessions) = 2
  /\ Len(reply.updateSessions[2].permittedChanges) = 1

\* C12: an accepted request-update returns no session and stores none
\* exactly when the diff is empty, and then no session is stored that would
\* block the next request-update; with a non-empty diff it returns at least
\* one session, each with a fresh id and a non-empty change list, the ids
\* returned are the ids stored by the request, and getUpdateSession finds
\* each returned id with the returned changes.
C12_SessionsReturned ==
  (IsSyncReply /\ reply.status = 200) =>
    LET sessions == reply.updateSessions
        ids == {sessions[k].id : k \in 1..Len(sessions)}
    IN /\ (sessions = << >>) = (reply.permittedChanges = << >>)
       /\ (SessionsAdded(reply) = {}) = (reply.permittedChanges = << >>)
       /\ reply.permittedChanges = << >> =>
            /\ sessionStorage = reply.before.sessionStorage
            /\ timers = reply.before.timers
            /\ getAllUpdateSessions(Store) = {}
       /\ ids = SessionsAdded(reply)
       /\ Cardinality(ids) = Len(sessions)
       /\ \A k \in 1..Len(sessions) :
            /\ sessions[k].permittedChanges # << >>
            /\ sessions[k].id \notin DOMAIN reply.before.sessionStorage
            /\ getUpdateSession(Store, sessions[k].id).found
            /\ getUpdateSession(Store, sessions[k].id).permittedChanges
                 = sessions[k].permittedChanges
            /\ sessions[k].id \in timers

\* C12 witness: after a request-update with an empty diff the client's next
\* request-update was accepted
C12_Witness ==
  /\ IsSyncReply
  /\ reply.status = 200
  /\ client.phase = "resynced"
  /\ client.cache = manifestCache
  /\ getPermittedChanges(client.cache, client.manifest) = << >>
  /\ client.manifest # << >>

\* the client has submitted every session of its request-update and has
\* been answered success for every update
RoundTripDone ==
  /\ client.phase \in {"synced", "resynced"}
  /\ client.ok
  /\ client.todo = << >>
  /\ UniquePaths(client.manifest)
  /\ UniquePaths(client.cache)
  /\ \A h \in Handlers : handler[h] = Idle
  /\ client.phase = "synced" => reply = NoReply

\* C13: when a client whose manifest C names every path once has had its
\* request-update accepted and has submitted every returned session once,
\* with one update per permitted change carrying the content C fingerprints,
\* and every update succeeded, then the manifest cache maps the paths of C
\* to the hashes of C and no other path, files outside the diff are as they
\* were, written files hold the content sent, deleted files are absent, and
\* a further request-update with C is answered with no session.
C13_Convergence ==
  RoundTripDone =>
    LET diff == getPermittedChanges(client.cache, client.manifest)
        touched == {diff[k].path : k \in 1..Len(diff)}
    IN /\ UniquePaths(manifestCache)
       /\ \A p \in RoundTripPaths :
            /\ EntryOf(manifestCache, p) = EntryOf(client.manifest, p)
            /\ p \notin touched => files[p] = client.tree[p]
       /\ \A k \in 1..Len(diff) :
            files[diff[k].path] =
              IF diff[k].type = "delete"
                THEN NoFile
                ELSE ContentOf(MapGet(client.manifest, diff[k].path))
       /\ getPermittedChanges(manifestCache, client.manifest) = << >>
       /\ (client.phase = "resynced" /\ reply # NoReply) =>
            /\ IsSyncReply
            /\ reply.status = 200
            /\ reply.permittedChanges = << >>
            /\ reply.updateSessions = << >>
            /\ sessionStorage = << >>

\* C13 witness: an update, a create and a delete, submitted in two sessions,
\* all succeeded and the client's second request-update has been answered
C13_Witness ==
  /\ RoundTripDone
  /\ client.phase = "resynced"
  /\ IsSyncReply
  /\ BATCH_SIZE = 2
  /\ LET diff == getPermittedChanges(client.cache, client.manifest)
     IN /\ Len(diff) = 3
        /\ {diff[k].type : k \in 1..3} = {"update", "create", "delete"}

\* the indices of the manifest cache's entries for path p
EntriesOf(cache, p) == {k \in 1..Len(cache) : cache[k].path = p}

\* update i of reply r is the only update of its request on its path
OnlyOnItsPath(r, i) ==
  \A j \in 1..Len(r.updates) : r.updates[j].path = r.updates[i].path => j = i

\* C14: when a create or an update of path p with content c is answered
\* success (and no other update of the request names p), the file at p holds
\* c and the manifest cache holds exactly one entry for p, with hash(c),
\* whichever of the two types was named and whether or not p had an entry;
\* a diff against a manifest that gives hash(c) for p has no change for p;
\* and the entries of the paths no update of the request was handed to
\* applyUpdate for are as the request found them.
C14_WriteEffect ==
  (IsBatchReply /\ reply.found) =>
    /\ \A i \in 1..Len(reply.updates) :
         LET u == reply.updates[i]
         IN (/\ u.type \in {"create", "update"}
             /\ reply.results[i].status = "success"
             /\ OnlyOnItsPath(reply, i)) =>
              /\ files[u.path] = u.content
              /\ Cardinality(EntriesOf(manifestCache, u.path)) = 1
              /\ EntryOf(manifestCache, u.path) = {hashContent(u.content)}
              /\ ChangesOf(getPermittedChanges(manifestCache,
                     << [path |-> u.path, hash |-> hashContent(u.content)] >>),
                   u.path) = {}
    /\ \A p \in Paths :
         (\A i \in reply.handed : reply.updates[i].path # p) =>
           /\ EntryOf(manifestCache, p) = EntryOf(reply.before.manifestCache, p)
           /\ Cardinality(EntriesOf(manifestCache, p))
                = Cardinality(EntriesOf(reply.before.manifestCache, p))
           /\ files[p] = reply.before.files[p]

\* C14 witness: a create of a path that had an entry and an update of a
\* path that had none were both answered success
C14_Witness ==
  /\ IsBatchReply
  /\ reply.found
  /\ Len(reply.updates) = 2
  /\ reply.updates[1].type = "create"
  /\ reply.updates[2].type = "update"
  /\ reply.updates[1].path # reply.updates[2].path
  /\ EntriesOf(reply.before.manifestCache, reply.updates[1].path) # {}
  /\ EntriesOf(reply.before.manifestCache, reply.updates[2].path) = {}
  /\ \A i \in 1..2 : reply.results[i].status = "success"

\* C15: a delete the session permits as a delete, whose file is already
\* absent when fs.unlink runs (and nothing else fails), is answered success and leaves no entry for the
\* path; a delete answered success leaves neither the file nor an entry.
C15_DeleteAbsent ==
  (IsBatchReply /\ reply.found) =>
    \A i \in reply.handed :
      LET u == reply.updates[i]
      IN (/\ u.type = "delete"
          /\ \E k \in 1..Len(reply.session) :
               reply.session[k] = [type |-> "delete", path |-> u.path]) =>
           /\ i \in reply.enoent =>
                /\ reply.results[i].status = "success"
                /\ EntriesOf(manifestCache, u.path) = {}
           /\ (reply.results[i].status = "success" /\ OnlyOnItsPath(reply, i)) =>
                /\ files[u.path] = NoFile
                /\ EntriesOf(manifestCache, u.path) = {}

\* C16: when initializeManifestCache cannot read the tree or a file in it,
\* its promise is rejected, and the service does not go on to accept a
\* request-update.
C16_RebuildErrorExposed ==
  /\ (boot.pc = "done" /\ boot.failed) => boot.outcome = "rejected"
  /\ (IsSyncReply /\ reply.before.boot.failed) => reply.status # 200

\* C20: a request-update is accepted (a diff computed, sessions created)
\* only after initializeManifestCache has assigned the manifest cache.
C20_StartupOrdering ==
  (IsSyncReply /\ reply.status = 200) =>
    /\ reply.before.boot.pc = "done"
    /\ ~reply.before.boot.failed

\* the status update i of request h has after this step: in the request
\* while it awaits, in the reply when the step ends the request
StatusAfter(h, i) ==
  IF handler'[h] # Idle
    THEN handler'[h].results[i].status
    ELSE IF reply'.op = "update-batch" THEN reply'.results[i].status ELSE "none"

\* this step settles update i of request h with success
SucceedsNow(h, i) ==
  /\ handler[h] # Idle
  /\ i \in 1..Len(handler[h].updates)
  /\ handler[h].results[i].status = "pending"
  /\ StatusAfter(h, i) = "success"

\* a step changes the manifest cache only for the path of an update it
\* settles with success: to one entry with the hash of the written content,
\* or to no entry for a delete
ManifestStep ==
  /\ \A h \in Handlers : \A i \in Promises(h) :
       SucceedsNow(h, i) =>
         LET u == handler[h].updates[i]
         IN IF u.type = "delete"
              THEN EntriesOf(manifestCache', u.path) = {}
              ELSE /\ Cardinality(EntriesOf(manifestCache', u.path)) = 1
                   /\ EntryOf(manifestCache', u.path) = {hashContent(u.content)}
  /\ \A p \in Paths :
       (\A h \in Handlers : \A i \in Promises(h) :
          SucceedsNow(h, i) => handler[h].updates[i].path # p) =>
         /\ EntryOf(manifestCache', p) = EntryOf(manifestCache, p)
         /\ Cardinality(EntriesOf(manifestCache', p))
              = Cardinality(EntriesOf(manifestCache, p))

\* C17: the manifest cache always has at most one entry per path, and every
\* step leaves for a path the hash of the content of the write it applied
\* with success to that path (no entry after a delete) and leaves the entry
\* of every other path alone, whatever the interleaving of request-update,
\* overlapping update-batch requests and timeouts.
C17_ManifestInvariant ==
  /\ [](UniquePaths(manifestCache))
  /\ [][ManifestStep]_vars

\* C17 witness: of two overlapping writes of different content to one path,
\* one has been answered success while the other still awaits the filesystem
C17_Witness ==
  /\ IsBatchReply
  /\ reply.found
  /\ reply.results[1].status = "success"
  /\ reply.updates[1].type = "update"
  /\ \E h \in Handlers :
       /\ handler[h] # Idle
       /\ handler[h].updates[1].type = "update"
       /\ handler[h].updates[1].path = reply.updates[1].path
       /\ handler[h].updates[1].content # reply.updates[1].content

\* update i of record r (a request or its reply) has a type applyUpdate
\* knows and was handed to it
Handled(r, i) ==
  /\ i \in r.handed
  /\ r.updates[i].type \in {"create", "update", "delete"}

\* C18: an update-batch meets its session either stored or not, whenever
\* the timeout fires.  Stored: every update handed to applyUpdate runs to
\* its end and is answered by what the filesystem did, and a timeout that
\* fires meanwhile cancels and undoes nothing.  Not stored: every update is
\* answered Failure and nothing is applied.
C18_ExpiryRace ==
  /\ \A h \in Handlers :
       handler[h] # Idle =>
         /\ handler[h].id \in DOMAIN handler[h].before.sessionStorage
         /\ \E i \in 1..Len(handler[h].updates) : handler[h].stage[i] # "settled"
         /\ \A i \in 1..Len(handler[h].updates) :
              /\ (handler[h].stage[i] = "settled")
                   = (handler[h].results[i].status # "pending")
              /\ (Handled(handler[h], i) /\ handler[h].stage[i] = "settled") =>
                   (handler[h].results[i].status = "success")
                     = (i \notin handler[h].fsFailed)
  /\ IsBatchReply =>
       /\ reply.found = (reply.id \in DOMAIN reply.before.sessionStorage)
       /\ reply.found =>
            /\ reply.status = 200
            /\ \A i \in 1..Len(reply.updates) :
                 /\ reply.results[i].status \in Statuses
                 /\ Handled(reply, i) =>
                      (reply.results[i].status = "success")
                        = (i \notin reply.fsFailed)
                 /\ (Handled(reply, i) /\ i \notin reply.fsFailed
                       /\ OnlyOnItsPath(reply, i)) => Applied(reply.updates[i])
       /\ ~reply.found =>
            /\ AllFailure(reply)
            /\ reply.handed = {}
            /\ TreeAsBefore(reply)

\* C18 witness: the timeout fired while the request awaited the filesystem,
\* and the request has answered success for a write
C18_Witness ==
  /\ IsBatchReply
  /\ reply.found
  /\ reply.id \in expired
  /\ reply.id \notin reply.before.expired
  /\ \E i \in 1..Len(reply.updates) :
       /\ reply.updates[i].type = "create"
       /\ reply.results[i].status = "success"

\* C19: no two update-batch requests apply the updates of one session: a
\* request that names a session another request is still applying finds no
\* session.
C19_ExclusiveConsumption ==
  /\ \A g, h \in Handlers :
       (g # h /\ handler[g] # Idle /\ handler[h] # Idle) =>
         handler[g].id # handler[h].id
  /\ (IsBatchReply /\ reply.found) =>
       \A h \in Handlers : handler[h] # Idle => handler[h].id # reply.id

\* initializeManifestCache is between its call and its assignment to
\* manifestCache
Scanning(b) == b.pc \in {"readdir", "readFile"}

\* C21: while initializeManifestCache is between its call and its
\* assignment to manifestCache, no request-update reads the manifest cache
\* for a diff and no applyUpdate changes an entry of it; so the assignment
\* never discards the entry change of an update applied meanwhile.
C21_RebuildExclusion ==
  /\ (IsSyncReply /\ reply.status = 200) => ~Scanning(reply.before.boot)
  /\ (/\ IsBatchReply
      /\ reply.found
      /\ \E i \in 1..Len(reply.updates) : reply.results[i].status = "success") =>
       ~(Scanning(reply.before.boot) /\ Scanning(boot))
  /\ (/\ IsBatchReply
      /\ reply.found
      /\ Scanning(reply.before.boot)
      /\ boot.pc = "done"
      /\ ~boot.failed) =>
       \A i \in 1..Len(reply.updates) :
         (reply.results[i].status = "success" /\ OnlyOnItsPath(reply, i)) =>
           Applied(reply.updates[i])

\* C22: no stored session holds two changes for one path, and no
\* update-batch has two updates for one path in applyUpdate at a time,
\* whatever update list the request carries.
C22_DisjointApplies ==
  /\ \A id \in DOMAIN sessionStorage : UniquePaths(sessionStorage[id])
  /\ \A h \in Handlers :
       handler[h] # Idle =>
         \A i, j \in handler[h].handed :
           (/\ i # j
            /\ Handled(handler[h], i)
            /\ Handled(handler[h], j)) =>
             handler[h].updates[i].path # handler[h].updates[j].path

\* the place where path p first appears in a manifest
FirstIndex(manifest, p) ==
  CHOOSE i \in 1..Len(manifest) :
    /\ manifest[i].path = p
    /\ \A j \in 1..(i - 1) : manifest[j].path # p

C24_DeleteIdempotent ==
  /\ timers = DOMAIN sessionStorage
  /\ consumed \cap timers = {}
  /\ (IsBatchReply /\ reply.found) => reply.id \notin timers
  /\ \A id \in 0..(nextId + 1) :
       LET once == deleteUpdateSession(Store, id)
           twice == deleteUpdateSession(once, id)
       IN /\ twice = once
          /\ DOMAIN once.sessionStorage = DOMAIN sessionStorage \ {id}
          /\ once.timers = timers \ {id}
          /\ \A other \in DOMAIN once.sessionStorage :
               once.sessionStorage[other] = sessionStorage[other]
          /\ once.nextId = nextId
          /\ id \notin DOMAIN sessionStorage => once = Store

\* C24 witness: an update-batch has deleted its session while the session's
\* timeout was still pending
C24_Witness ==
  /\ IsBatchReply
  /\ reply.found
  /\ reply.id \in reply.before.timers
  /\ reply.id \notin expired
  /\ reply.id \notin DOMAIN sessionStorage
  /\ deleteUpdateSession(Store, reply.id) = Store

\* C25: a request-update is accepted (passes the check for stored sessions
\* and reads the manifest cache) only while no update-batch is applying
\* updates.
C25_NoDiffDuringApply ==
  (IsSyncReply /\ reply.status = 200) =>
    \A h \in Handlers : handler[h] = Idle

\* C26: every stored session is eventually stored no longer, consumed by an
\* update-batch or removed by its timeout, so the session table is empty
\* again and again and a request-update is then not answered 409.
C26_AdmissionLiveness ==
  /\ \A id \in 1..MaxSessionIds :
       (id \in DOMAIN sessionStorage) ~> (id \notin DOMAIN sessionStorage)
  /\ (getAllUpdateSessions(Store) # {}) ~> (getAllUpdateSessions(Store) = {})

\* C26 witness: a session no update-batch ever named has timed out, and the
\* next request-update was accepted
C26_Witness ==
  /\ IsSyncReply
  /\ reply.status = 200
  /\ reply.before.expired # {}
  /\ reply.before.consumed = {}

\* C27: from a manifest cache that lists the tree as it is, whenever no
\* update-batch is applying updates the manifest cache has exactly one
\* entry for every file of the tree, with the hash of the file's content,
\* and no entry for any other path.
C27_TreeAgreement ==
  (\A h \in Handlers : handler[h] = Idle) =>
    \A p \in Paths :
      IF files[p] = NoFile
        THEN EntriesOf(manifestCache, p) = {}
        ELSE /\ Cardinality(EntriesOf(manifestCache, p)) = 1
             /\ EntryOf(manifestCache, p) = {hashContent(files[p])}

\* C28: the session loop of request-update ends, whatever BATCH_SIZE the
\* environment gives: every iteration moves the index forward, so inside
\* the loop the sessions created so far are never more than the permitted
\* changes, and the index (unless NaN, which ends the loop) is at least
\* their number.
C28_SplitTerminates ==
  reply.op = "splitting" =>
    /\ Len(reply.updateSessions) <= Len(reply.permittedChanges)
    /\ reply.i.nan \/ reply.i.val >= Len(reply.updateSessions)

==========================================================================
